---- MODULE Spec2Model ----
(***************************************************************************)
(* Voice Dataset Collector (src/main.py): the upload handler with its      *)
(* validation and audio decoding, the entries collection, and the read     *)
(* handlers stats, download_csv, download_audio, download_all and debug.   *)
(*                                                                         *)
(* A Python str is a sequence of characters; a character is a one-letter   *)
(* TLA+ string.  Bytes are numbers 0..255.                                  *)
(***************************************************************************)
EXTENDS Integers, Sequences, FiniteSets, TLC

VARIABLES
    collection,   \* db["entries"]: the documents, in insertion order
    issued,       \* the values uuid.uuid4() has returned so far
    req,          \* per upload handler: the form fields it was called with
    up,           \* per upload handler: its position, the entry it built, its response
    rdr,          \* the read handler in flight (stats or debug) and what its
                  \* awaited queries have returned so far
    rd            \* the last read request that completed, and its response

vars == <<collection, issued, req, up, rdr, rd>>

(***************************************************************************)
(* Bounds of the model.                                                    *)
(***************************************************************************)
\* concurrent upload requests
NumUploads == 2
\* main.py:121 compares against MAX_AUDIO_SIZE_MB * 1024 * 1024 bytes; the
\* model counts BytesPerMB bytes to the megabyte so that a payload over the
\* limit can be written down
BytesPerMB == 1
\* main.py:157 and :206 pass length=10000 to to_list; the model's cursor
\* returns at most ListCap documents so that a collection over the cap can
\* be written down
ListCap == 2

(***************************************************************************)
(* Program constants.                                                      *)
(***************************************************************************)
MAX_AUDIO_SIZE_MB == 10
MaxTextLen == 1000
MaxSpeakerLen == 20

Procs == 1..NumUploads
\* the pool uuid.uuid4() draws from: one more than the uploads can use up
Uuids == 1..(NumUploads + 1)

(***************************************************************************)
(* Characters and the str methods the handlers use.                        *)
(***************************************************************************)
UPPER == <<"A", "B", "C", "D", "E", "F", "G", "H", "I", "J", "K", "L", "M", "N", "O", "P", "Q", "R", "S", "T", "U", "V", "W", "X", "Y", "Z">>
LOWER == <<"a", "b", "c", "d", "e", "f", "g", "h", "i", "j", "k", "l", "m", "n", "o", "p", "q", "r", "s", "t", "u", "v", "w", "x", "y", "z">>
\* U+00DF, the one modelled character whose upper() is longer than itself
ESZETT == "sharp-s"
WHITESPACE == {" ", "\t", "\n", "\r"}

Range(s) == {s[i] : i \in 1..Len(s)}

RECURSIVE Flatten(_)
Flatten(ss) == IF ss = <<>> THEN <<>> ELSE Head(ss) \o Flatten(Tail(ss))

IndexIn(c, s) == CHOOSE i \in 1..Len(s) : s[i] = c

\* str.lower()
LowerCh(c) == IF c \in Range(UPPER) THEN LOWER[IndexIn(c, UPPER)] ELSE c
lower(s) == [i \in 1..Len(s) |-> LowerCh(s[i])]

\* str.upper(): one character may become two
UpperCh(c) ==
    IF c \in Range(LOWER) THEN <<UPPER[IndexIn(c, LOWER)]>>
    ELSE IF c = ESZETT THEN <<"S", "S">>
    ELSE <<c>>
upper(s) == Flatten([i \in 1..Len(s) |-> UpperCh(s[i])])

\* str.strip(): drop leading and trailing whitespace
RECURSIVE lstrip(_)
lstrip(s) == IF s # <<>> /\ Head(s) \in WHITESPACE THEN lstrip(Tail(s)) ELSE s
RECURSIVE rstrip(_)
rstrip(s) ==
    IF s # <<>> /\ s[Len(s)] \in WHITESPACE THEN rstrip(SubSeq(s, 1, Len(s) - 1))
    ELSE s
strip(s) == rstrip(lstrip(s))

\* str.startswith(prefix)
startswith(s, prefix) ==
    /\ Len(s) >= Len(prefix)
    /\ SubSeq(s, 1, Len(prefix)) = prefix

\* "," in s
HasComma(s) == "," \in Range(s)

\* s.split(",", 1) for a string that holds a comma: <<header, encoded>>
split1(s) ==
    LET k == CHOOSE i \in 1..Len(s) : s[i] = "," /\ \A j \in 1..(i - 1) : s[j] # ","
    IN  <<SubSeq(s, 1, k - 1), SubSeq(s, k + 1, Len(s))>>

(***************************************************************************)
(* The enumerated sets, main.py:30-41.                                     *)
(***************************************************************************)
VALID_LANGUAGES == {<<"b", "e", "n", "g", "a", "l", "i">>, <<"e", "n", "g", "l", "i", "s", "h">>, <<"m", "i", "x", "e", "d">>}
VALID_NOISE == {<<"n", "o", "i", "s", "y">>, <<"q", "u", "i", "e", "t">>}
INTENT_LIST ==
    << <<"p", "i", "c", "k", "_", "a", "n", "d", "_", "p", "l", "a", "c", "e">>, <<"p", "i", "c", "k", "_", "o", "b", "j", "e", "c", "t">>, <<"p", "l", "a", "c", "e", "_", "o", "b", "j", "e", "c", "t">>,
       <<"m", "o", "v", "e", "_", "r", "o", "b", "o", "t">>, <<"q", "u", "e", "r", "y", "_", "w", "e", "a", "t", "h", "e", "r">>, <<"q", "u", "e", "r", "y", "_", "c", "r", "i", "c", "k", "e", "t">>,
       <<"a", "r", "m", "_", "h", "o", "m", "e">>, <<"s", "t", "o", "p">>, <<"g", "r", "e", "e", "t">> >>
VALID_INTENTS == Range(INTENT_LIST) \cup {<<>>}
VALID_COLORS ==
    { <<"r", "e", "d">>, <<"g", "r", "e", "e", "n">>, <<"b", "l", "u", "e">>, <<"y", "e", "l", "l", "o", "w">>, <<"o", "r", "a", "n", "g", "e">>,
      <<"w", "h", "i", "t", "e">>, <<"b", "l", "a", "c", "k">>, <<"p", "u", "r", "p", "l", "e">>, <<"p", "i", "n", "k">>, <<>> }
VALID_DIRECTIONS == {<<"f", "o", "r", "w", "a", "r", "d">>, <<"b", "a", "c", "k", "w", "a", "r", "d">>, <<"l", "e", "f", "t">>, <<"r", "i", "g", "h", "t">>, <<>>}

(***************************************************************************)
(* base64.b64decode(s) with a str argument and validate=False: the str is  *)
(* encoded as ASCII (a ValueError otherwise), then binascii.a2b_base64     *)
(* skips every character outside the alphabet, stops at a complete pad     *)
(* sequence, and raises binascii.Error when the input ends inside a quad.  *)
(***************************************************************************)
B64_ALPHABET ==
    UPPER \o LOWER \o <<"0", "1", "2", "3", "4", "5", "6", "7", "8", "9", "+", "/">>
B64Value(c) == IndexIn(c, B64_ALPHABET) - 1
IsAscii(c) == c # ESZETT

DecodeError == [ok |-> FALSE, bytes |-> <<>>]
Decoded(bytes) == [ok |-> TRUE, bytes |-> bytes]

RECURSIVE a2b_base64(_, _, _, _, _, _)
a2b_base64(s, i, quad_pos, leftchar, pads, out) ==
    IF i > Len(s) THEN
        IF quad_pos # 0 THEN DecodeError ELSE Decoded(out)
    ELSE IF s[i] = "=" THEN
        IF quad_pos >= 2 THEN
            IF quad_pos + pads + 1 >= 4 THEN Decoded(out)
            ELSE a2b_base64(s, i + 1, quad_pos, leftchar, pads + 1, out)
        ELSE a2b_base64(s, i + 1, quad_pos, leftchar, pads, out)
    ELSE IF s[i] \notin Range(B64_ALPHABET) THEN
        a2b_base64(s, i + 1, quad_pos, leftchar, pads, out)
    ELSE
        LET this_ch == B64Value(s[i]) IN
        CASE quad_pos = 0 ->
                a2b_base64(s, i + 1, 1, this_ch, 0, out)
          [] quad_pos = 1 ->
                a2b_base64(s, i + 1, 2, this_ch % 16, 0,
                           Append(out, leftchar * 4 + this_ch \div 16))
          [] quad_pos = 2 ->
                a2b_base64(s, i + 1, 3, this_ch % 4, 0,
                           Append(out, leftchar * 16 + this_ch \div 4))
          [] quad_pos = 3 ->
                a2b_base64(s, i + 1, 0, 0, 0,
                           Append(out, leftchar * 64 + this_ch))

b64decode(s) ==
    IF \E i \in 1..Len(s) : ~IsAscii(s[i]) THEN DecodeError
    ELSE a2b_base64(s, 1, 0, 0, 0, <<>>)

(***************************************************************************)
(* upload, main.py:85-122: the checks, in the order the handler makes      *)
(* them.  The result is the HTTPException raised, or the values the        *)
(* handler goes on with.                                                    *)
(***************************************************************************)
HTTPException(status, detail) == [ok |-> FALSE, status |-> status, detail |-> detail]

\* faulty variant: the length bound off by one
TextInvalid_OffByOne(text) == text = <<>> \/ Len(text) >= MaxTextLen
TextInvalid(text) == text = <<>> \/ Len(text) > MaxTextLen
SpeakerTooLong(speaker_id) == Len(speaker_id) > MaxSpeakerLen
AudioTooLarge(audio_bytes) == Len(audio_bytes) > MAX_AUDIO_SIZE_MB * BytesPerMB

Validate(r) ==
    LET text       == strip(r.text)
        speaker_id == upper(strip(r.speaker_id))
    IN
    IF TextInvalid(text) THEN
        HTTPException(400, "Text must be 1-1000 characters.")
    ELSE IF speaker_id = <<>> THEN
        HTTPException(400, "Speaker ID is required.")
    ELSE IF SpeakerTooLong(speaker_id) THEN
        HTTPException(400, "Speaker ID too long (max 20 chars).")
    ELSE IF lower(r.language) \notin VALID_LANGUAGES THEN
        HTTPException(400, "Language must be one of")
    ELSE IF lower(r.environment) \notin VALID_NOISE THEN
        HTTPException(400, "Environment must be one of")
    ELSE IF lower(r.intent) \notin VALID_INTENTS THEN
        HTTPException(400, "Intent must be one of")
    ELSE IF lower(r.object_color) \notin VALID_COLORS THEN
        HTTPException(400, "Object color must be one of")
    ELSE IF lower(r.target_color) \notin VALID_COLORS THEN
        HTTPException(400, "Target color must be one of")
    ELSE IF lower(r.direction) \notin VALID_DIRECTIONS THEN
        HTTPException(400, "Direction must be one of")
    ELSE IF ~HasComma(r.audio_data) THEN
        HTTPException(400, "Invalid audio format.")
    ELSE
        LET header  == split1(r.audio_data)[1]
            encoded == split1(r.audio_data)[2]
        IN
        IF ~startswith(header, <<"d", "a", "t", "a", ":", "a", "u", "d", "i", "o", "/">>) THEN
            HTTPException(400, "Uploaded data is not audio.")
        ELSE IF ~b64decode(encoded).ok THEN
            HTTPException(400, "Failed to decode audio data.")
        ELSE IF AudioTooLarge(b64decode(encoded).bytes) THEN
            HTTPException(400, "Audio exceeds 10MB limit.")
        ELSE
            [ok |-> TRUE, text |-> text, speaker_id |-> speaker_id,
             encoded |-> encoded]

(***************************************************************************)
(* upload, main.py:124-140: the entry built from the validated fields.     *)
(***************************************************************************)
DIGITS == <<"0", "1", "2", "3", "4", "5", "6", "7", "8", "9">>
UuidStr(u) == <<"u", DIGITS[u + 1]>>
\* f"{uuid.uuid4()}.webm"
Filename(u) == UuidStr(u) \o <<".", "w", "e", "b", "m">>

\* uuid.uuid4(): a value no earlier call returned (the spec treats the
\* collision probability as zero); which one does not matter to any handler,
\* so the model takes the least
\* faulty variant: the identifier computed once, at import
uuid4_AtImport == CHOOSE u \in Uuids : \A w \in Uuids : u <= w
uuid4 == CHOOSE u \in Uuids \ issued : \A w \in Uuids \ issued : u <= w

\* datetime.utcnow().isoformat(): the clock moves on between two uploads
utcnow == <<"2", "0", "2", "4", "-", "0", "5", "-", "0", "1", "T", "1", "0", ":", "0", "0", ":", "0">> \o <<DIGITS[Cardinality(issued) + 1]>>

\* faulty variant: language stored as the client sent it
BuildEntry_RawLanguage(r, v, filename, timestamp) ==
    [filename     |-> filename,
     speaker_id   |-> v.speaker_id,
     text         |-> v.text,
     language     |-> r.language,
     environment  |-> lower(r.environment),
     intent       |-> lower(r.intent),
     object_color |-> lower(r.object_color),
     target_color |-> lower(r.target_color),
     direction    |-> lower(r.direction),
     timestamp    |-> timestamp,
     audio_b64    |-> v.encoded]
\* faulty variant: the whole data URL stored, not the payload after the comma
BuildEntry_WholeDataUrl(r, v, filename, timestamp) ==
    [filename     |-> filename,
     speaker_id   |-> v.speaker_id,
     text         |-> v.text,
     language     |-> lower(r.language),
     environment  |-> lower(r.environment),
     intent       |-> lower(r.intent),
     object_color |-> lower(r.object_color),
     target_color |-> lower(r.target_color),
     direction    |-> lower(r.direction),
     timestamp    |-> timestamp,
     audio_b64    |-> r.audio_data]
BuildEntry(r, v, filename, timestamp) ==
    [filename     |-> filename,
     speaker_id   |-> v.speaker_id,
     text         |-> v.text,
     language     |-> lower(r.language),
     environment  |-> lower(r.environment),
     intent       |-> lower(r.intent),
     object_color |-> lower(r.object_color),
     target_color |-> lower(r.target_color),
     direction    |-> lower(r.direction),
     timestamp    |-> timestamp,
     audio_b64    |-> v.encoded]

NoReq == [none |-> TRUE]
NoEntry == [none |-> TRUE]
NoResp == [status |-> 0]
Idle == [pc |-> "idle", entry |-> NoEntry, resp |-> NoResp]

Without(e, k) == [f \in DOMAIN e \ {k} |-> e[f]]

\* faulty variant: the document replaces what the collection held
insert_one_Replaces(coll, entry) == <<entry>>
\* collection.insert_one(entry) when it returns
insert_one(coll, entry) == Append(coll, entry)
\* faulty variant: the metadata is written before the failure, the audio is not
insert_raised_Partial(coll, entry) == Append(coll, Without(entry, "audio_b64"))
\* the collection after an insert_one(entry) that raised: the write of one
\* document is atomic
insert_raised(coll, entry) == coll

Saved(entry) ==
    [ok |-> TRUE, status |-> 200, message |-> "Saved successfully!",
     filename |-> entry.filename]

\* POST /upload/ up to the await of insert_one (main.py:85-143)
upload(p, r) ==
    /\ up[p].pc = "idle"
    /\ req' = [req EXCEPT ![p] = r]
    /\ LET v == Validate(r) IN
       IF ~v.ok THEN
           /\ up' = [up EXCEPT ![p] = [pc |-> "done", entry |-> NoEntry, resp |-> v]]
           /\ UNCHANGED issued
       ELSE
           /\ issued' = issued \cup {uuid4}
           /\ up' = [up EXCEPT ![p] =
                        [pc |-> "insert",
                         entry |-> BuildEntry(r, v, Filename(uuid4), utcnow),
                         resp |-> NoResp]]
    /\ UNCHANGED <<collection, rdr, rd>>

\* insert_one returns: the document is in the collection (main.py:143-152)
InsertOk(p) ==
    /\ up[p].pc = "insert"
    /\ collection' = insert_one(collection, up[p].entry)
    /\ up' = [up EXCEPT ![p].pc = "done", ![p].resp = Saved(up[p].entry)]
    /\ UNCHANGED <<issued, req, rdr, rd>>

\* insert_one raises (main.py:144-146)
InsertFail(p) ==
    /\ up[p].pc = "insert"
    /\ collection' = insert_raised(collection, up[p].entry)
    /\ up' = [up EXCEPT ![p].pc = "done",
                        ![p].resp = HTTPException(500, "Failed to save to database.")]
    /\ UNCHANGED <<issued, req, rdr, rd>>

(***************************************************************************)
(* The queries of the read handlers.                                       *)
(***************************************************************************)
Get(e, k) == IF k \in DOMAIN e THEN e[k] ELSE <<>>

\* collection.count_documents(filter); filter is <<>> or <<field, value>>
count_documents(filter) ==
    Cardinality({i \in 1..Len(collection) :
                    \/ filter = <<>>
                    \/ /\ filter # <<>>
                       /\ filter[1] \in DOMAIN collection[i]
                       /\ collection[i][filter[1]] = filter[2]})

\* faulty variant: the bengali and english queries swapped
STATS_QUERIES_Swapped ==
    << <<>>,
       <<"language", <<"e", "n", "g", "l", "i", "s", "h">>>>, <<"language", <<"b", "e", "n", "g", "a", "l", "i">>>>,
       <<"language", <<"m", "i", "x", "e", "d">>>>,
       <<"environment", <<"n", "o", "i", "s", "y">>>>, <<"environment", <<"q", "u", "i", "e", "t">>>> >>
    \o [k \in 1..Len(INTENT_LIST) |-> <<"intent", INTENT_LIST[k]>>]
\* the count queries of stats in the order it awaits them (main.py:51-63)
STATS_QUERIES ==
    << <<>>,
       <<"language", <<"b", "e", "n", "g", "a", "l", "i">>>>, <<"language", <<"e", "n", "g", "l", "i", "s", "h">>>>,
       <<"language", <<"m", "i", "x", "e", "d">>>>,
       <<"environment", <<"n", "o", "i", "s", "y">>>>, <<"environment", <<"q", "u", "i", "e", "t">>>> >>
    \o [k \in 1..Len(INTENT_LIST) |-> <<"intent", INTENT_LIST[k]>>]

NoReader == [op |-> "idle", got |-> <<>>]
NoRead == [to |-> "none", arg |-> <<>>, resp |-> NoResp]
Answer(handler, arg, resp) == [to |-> handler, arg |-> arg, resp |-> resp]
\* what the handler op has read so far, this request's first query included
Got(op) == IF rdr.op = op THEN rdr.got ELSE <<>>

\* the JSON object stats returns (main.py:65-70)
StatsResponse(got) ==
    [ok |-> TRUE, status |-> 200,
     total |-> got[1], bengali |-> got[2], english |-> got[3], mixed |-> got[4],
     noisy |-> got[5], quiet |-> got[6],
     intents |-> [k \in 1..Len(INTENT_LIST) |-> got[6 + k]]]

\* GET /stats: its next count query is answered; after the last one the
\* handler returns
stats ==
    /\ rdr.op \in {"idle", "stats"}
    /\ LET got == Append(Got("stats"),
                         count_documents(STATS_QUERIES[Len(Got("stats")) + 1]))
       IN  IF Len(got) = Len(STATS_QUERIES)
           THEN rdr' = NoReader /\ rd' = Answer("stats", <<>>, StatsResponse(got))
           ELSE rdr' = [op |-> "stats", got |-> got] /\ rd' = NoRead
    /\ UNCHANGED <<collection, issued, req, up>>

\* GET /debug: count_documents({}) is answered, then find_one({}, projection)
\* (main.py:248-256)
\* the JSON object debug returns; sample_entry is <<>> for None, <<e>> for e
DebugResponse(total, sample) ==
    [ok |-> TRUE, status |-> 200, mongo_connected |-> TRUE,
     total_entries |-> total, sample_entry |-> sample]
debug ==
    /\ rdr.op \in {"idle", "debug"}
    /\ IF rdr.op = "idle"
       THEN /\ rdr' = [op |-> "debug", got |-> <<count_documents(<<>>)>>]
            /\ rd' = NoRead
       ELSE /\ rdr' = NoReader
            /\ rd' = Answer("debug", <<>>,
                            DebugResponse(rdr.got[1],
                                          IF collection = <<>> THEN <<>>
                                          ELSE <<Without(collection[1], "audio_b64")>>))
    /\ UNCHANGED <<collection, issued, req, up>>

\* cursor.to_list(length=...): the first documents, up to the cap
to_list(docs) == SubSeq(docs, 1, IF Len(docs) < ListCap THEN Len(docs) ELSE ListCap)

(***************************************************************************)
(* csv.writer with the default dialect: a field is quoted when it holds    *)
(* the delimiter, the quote character or a line-terminator character, a    *)
(* quote inside it is doubled, and each row ends with "\r\n".              *)
(***************************************************************************)
CSV_COLUMNS ==
    <<"filename", "speaker_id", "text", "language", "intent", "object_color",
      "target_color", "direction", "environment", "timestamp">>
CSV_HEADER ==
    << <<"f", "i", "l", "e", "n", "a", "m", "e">>, <<"s", "p", "e", "a", "k", "e", "r", "_", "i", "d">>, <<"t", "e", "x", "t">>, <<"l", "a", "n", "g", "u", "a", "g", "e">>, <<"i", "n", "t", "e", "n", "t">>,
       <<"o", "b", "j", "e", "c", "t", "_", "c", "o", "l", "o", "r">>, <<"t", "a", "r", "g", "e", "t", "_", "c", "o", "l", "o", "r">>, <<"d", "i", "r", "e", "c", "t", "i", "o", "n">>, <<"e", "n", "v", "i", "r", "o", "n", "m", "e", "n", "t">>,
       <<"t", "i", "m", "e", "s", "t", "a", "m", "p">> >>

\* faulty variant: no field is ever quoted
NeedsQuotes_Never(field) == FALSE
NeedsQuotes(field) == Range(field) \cap {",", "\"", "\r", "\n"} # {}
CsvField(field) ==
    IF NeedsQuotes(field) THEN
        <<"\"">>
        \o Flatten([i \in 1..Len(field) |->
                       IF field[i] = "\"" THEN <<"\"", "\"">> ELSE <<field[i]>>])
        \o <<"\"">>
    ELSE field

RECURSIVE JoinComma(_)
JoinComma(fields) ==
    IF Len(fields) = 1 THEN fields[1]
    ELSE fields[1] \o <<",">> \o JoinComma(Tail(fields))

\* writer.writerow(fields): the text it appends to the output
writerow(fields) ==
    JoinComma([i \in 1..Len(fields) |-> CsvField(fields[i])]) \o <<"\r", "\n">>

\* the row written for entry e: e.get(column, "") for each column
EntryRow(e) == [i \in 1..Len(CSV_COLUMNS) |-> Get(e, CSV_COLUMNS[i])]

\* the CSV document: the header row, then one row per entry
RenderCsv(entries) ==
    writerow(CSV_HEADER)
    \o Flatten([i \in 1..Len(entries) |-> writerow(EntryRow(entries[i]))])

\* GET /download-csv (main.py:155-188)
CsvResponse ==
    LET entries == to_list([i \in 1..Len(collection) |->
                               Without(collection[i], "audio_b64")])
    IN  IF entries = <<>> THEN HTTPException(404, "No data yet.")
        ELSE [ok |-> TRUE, status |-> 200, media_type |-> "text/csv",
              body |-> RenderCsv(entries)]
download_csv ==
    /\ rdr.op = "idle"
    /\ rd' = Answer("download_csv", <<>>, CsvResponse)
    /\ UNCHANGED <<collection, issued, req, up, rdr>>

\* GET /download-audio/{filename} (main.py:191-201); find_one returns the
\* first match
AudioResponse(filename) ==
    LET hits == {i \in 1..Len(collection) :
                    Get(collection[i], "filename") = filename}
    IN  IF hits = {} THEN HTTPException(404, "Audio not found.")
        ELSE LET entry == collection[CHOOSE i \in hits : \A j \in hits : i <= j]
             IN  IF "audio_b64" \notin DOMAIN entry
                    \/ ~b64decode(entry.audio_b64).ok
                 THEN HTTPException(500, "Internal Server Error")
                 ELSE [ok |-> TRUE, status |-> 200, media_type |-> "audio/webm",
                       body |-> b64decode(entry.audio_b64).bytes]
download_audio(filename) ==
    /\ rdr.op = "idle"
    /\ rd' = Answer("download_audio", filename, AudioResponse(filename))
    /\ UNCHANGED <<collection, issued, req, up, rdr>>

\* GET /download-all (main.py:204-243): the members written to the archive,
\* in order: audio/<filename> for each entry that holds audio_b64, then
\* metadata.csv
\* faulty variant: a member for every entry, empty when it holds no audio
AudioMembers_ForEvery(entries) ==
    [k \in 1..Len(entries) |->
        [name |-> <<"a", "u", "d", "i", "o", "/">> \o entries[k].filename,
         data |-> IF "audio_b64" \in DOMAIN entries[k]
                  THEN b64decode(entries[k].audio_b64).bytes ELSE <<>>]]
AudioMembers(entries) ==
    LET with == {i \in 1..Len(entries) : "audio_b64" \in DOMAIN entries[i]}
        At(k) == CHOOSE i \in with : Cardinality({j \in with : j <= i}) = k
    IN  [k \in 1..Cardinality(with) |->
            [name |-> <<"a", "u", "d", "i", "o", "/">> \o entries[At(k)].filename,
             data |-> b64decode(entries[At(k)].audio_b64).bytes]]
ZipResponse ==
    LET entries == to_list(collection) IN
    IF entries = <<>> THEN HTTPException(404, "No data yet.")
    ELSE IF \E i \in 1..Len(entries) :
                /\ "audio_b64" \in DOMAIN entries[i]
                /\ \/ "filename" \notin DOMAIN entries[i]
                   \/ ~b64decode(entries[i].audio_b64).ok
         THEN HTTPException(500, "Internal Server Error")
    ELSE [ok |-> TRUE, status |-> 200, media_type |-> "application/zip",
          members |-> Append(AudioMembers(entries),
                             [name |-> <<"m", "e", "t", "a", "d", "a", "t", "a", ".", "c", "s", "v">>,
                              data |-> RenderCsv(entries)])]
download_all ==
    /\ rdr.op = "idle"
    /\ rd' = Answer("download_all", <<>>, ZipResponse)
    /\ UNCHANGED <<collection, issued, req, up, rdr>>

(***************************************************************************)
(* The client side of an upload: the recorded bytes as a data URL.         *)
(* base64 encoding as RFC 4648 defines it.                                 *)
(***************************************************************************)
RECURSIVE b64encode(_)
b64encode(bytes) ==
    LET ch(v) == B64_ALPHABET[v + 1] IN
    IF bytes = <<>> THEN <<>>
    ELSE IF Len(bytes) = 1 THEN
        <<ch(bytes[1] \div 4), ch((bytes[1] % 4) * 16), "=", "=">>
    ELSE IF Len(bytes) = 2 THEN
        <<ch(bytes[1] \div 4),
          ch((bytes[1] % 4) * 16 + bytes[2] \div 16),
          ch((bytes[2] % 16) * 4), "=">>
    ELSE
        <<ch(bytes[1] \div 4),
          ch((bytes[1] % 4) * 16 + bytes[2] \div 16),
          ch((bytes[2] % 16) * 4 + bytes[3] \div 64),
          ch(bytes[3] % 64)>>
        \o b64encode(SubSeq(bytes, 4, Len(bytes)))

AUDIO_PREFIX == <<"d", "a", "t", "a", ":", "a", "u", "d", "i", "o", "/", "w", "e", "b", "m", ";", "c", "o", "d", "e", "c", "s", "=", "o", "p", "u", "s", ";", "b", "a", "s", "e", "6", "4", ",">>
DataUrl(bytes) == AUDIO_PREFIX \o b64encode(bytes)

(***************************************************************************)
(* The form fields the model submits.                                      *)
(***************************************************************************)
Request(audio_data, text, language, environment, speaker_id, intent, object_color, target_color, direction) ==
    [audio_data |-> audio_data, text |-> text, language |-> language,
     environment |-> environment, speaker_id |-> speaker_id, intent |-> intent,
     object_color |-> object_color, target_color |-> target_color,
     direction |-> direction]

Repeat(c, n) == [i \in 1..n |-> c]
MaxAudioBytes == MAX_AUDIO_SIZE_MB * BytesPerMB

\* bytes the client may have recorded
BYTE_SAMPLES ==
    { <<>>, <<255>>, <<77, 0>>, <<250, 251, 252, 253>>, Repeat(0, MaxAudioBytes) }

TEXT_INPUTS ==
    { <<>>, <<" ", "\t">>, <<" ", "H", "i", ",", " ", "\"", "u", "\"", "\n">>,
      <<" ">> \o Repeat("a", MaxTextLen) \o <<"\n">>,
      Repeat("a", MaxTextLen + 1) }
SPEAKER_INPUTS ==
    { <<>>, <<" ", ESZETT, "1", "\t">>,
      Repeat("x", MaxSpeakerLen),
      Repeat("x", MaxSpeakerLen - 1) \o <<ESZETT>>,
      Repeat("x", MaxSpeakerLen + 1) }
LANGUAGE_INPUTS == {<<"b", "e", "n", "g", "a", "l", "i">>, <<"E", "n", "g", "l", "i", "s", "h">>, <<" ", "m", "i", "x", "e", "d">>, <<"h", "i", "n", "d", "i">>}
ENVIRONMENT_INPUTS == {<<"N", "O", "I", "S", "Y">>, <<"l", "o", "u", "d">>}
INTENT_INPUTS == {<<>>, <<"P", "i", "c", "k", "_", "A", "n", "d", "_", "P", "l", "a", "c", "e">>, <<"d", "a", "n", "c", "e">>}
OBJECT_COLOR_INPUTS == {<<>>, <<"c", "y", "a", "n">>}
TARGET_COLOR_INPUTS == {<<"B", "l", "u", "e">>, <<"t", "e", "a", "l">>}
DIRECTION_INPUTS == {<<"L", "E", "F", "T">>, <<"u", "p">>}
AUDIO_INPUTS ==
    {DataUrl(b) : b \in BYTE_SAMPLES}
    \cup
    { <<"d", "a", "t", "a", ":", "a", "u", "d", "i", "o", "/", "w", "e", "b", "m", ";", "b", "a", "s", "e", "6", "4">>,
      <<"d", "a", "t", "a", ":", "v", "i", "d", "e", "o", "/", "w", "e", "b", "m", ";", "b", "a", "s", "e", "6", "4", ",", "A", "A", "A", "A">>,
      <<"a", "u", "d", "i", "o", "/", "w", "e", "b", "m", ",", "A">>,
      <<"d", "a", "t", "a", ":", "a", "u", "d", "i", "o", "/", "w", "e", "b", "m", ";", "b", "a", "s", "e", "6", "4", ",", "A", "A", "A", "A", "A">>,
      AUDIO_PREFIX \o <<"A", "A", ESZETT, "A">>,
      AUDIO_PREFIX \o <<"/", "w", " ", "=", "\n", "=">>,
      <<"d", "a", "t", "a", ":", "a", "u", "d", "i", "o", "/", "w", "e", "b", "m", ",", "A", "A", "=", "=", ",", "A", "A", "A", "A">>,
      DataUrl(Repeat(0, MaxAudioBytes + 1)) }

\* the requests of the concurrent uploads
ReqBengali ==
    Request(DataUrl(<<1, 2, 3>>), <<" ", "H", "i", " ">>, <<"B", "e", "n", "g", "a", "l", "i">>, <<"N", "O", "I", "S", "Y">>, <<" ", "s", "p", "k", "1", " ">>,
            <<>>, <<>>, <<>>, <<>>)
ReqEnglish ==
    Request(DataUrl(<<255>>), <<"p", "i", "c", "k", ",", " ", "p", "l", "a", "c", "e">>, <<"e", "n", "g", "l", "i", "s", "h">>, <<"q", "u", "i", "e", "t">>, <<"s", "2">>,
            <<"P", "i", "c", "k", "_", "O", "b", "j", "e", "c", "t">>, <<"R", "E", "D">>, <<"b", "l", "u", "e">>, <<"L", "e", "f", "t">>)
ReqBadLanguage ==
    Request(DataUrl(<<255>>), <<"h", "e", "l", "l", "o">>, <<"h", "i", "n", "d", "i">>, <<"q", "u", "i", "e", "t">>, <<"s", "3">>,
            <<>>, <<>>, <<>>, <<>>)
ReqBadAudio ==
    Request(<<"d", "a", "t", "a", ":", "a", "u", "d", "i", "o", "/", "w", "e", "b", "m", ";", "b", "a", "s", "e", "6", "4", ",", "A", "A", "A", "A", "A">>, <<"h", "e", "l", "l", "o">>, <<"m", "i", "x", "e", "d">>, <<"n", "o", "i", "s", "y">>, <<"s", "4">>,
            <<>>, <<>>, <<>>, <<>>)
ConcurrentRequests == {ReqBengali, ReqEnglish, ReqBadLanguage, ReqBadAudio}

(***************************************************************************)
(* Spec: the handlers of one process, interleaved at their awaits, on a    *)
(* collection that starts empty.                                           *)
(***************************************************************************)
Init ==
    /\ collection = <<>>
    /\ issued = {}
    /\ req = [p \in Procs |-> NoReq]
    /\ up = [p \in Procs |-> Idle]
    /\ rdr = NoReader
    /\ rd = NoRead

Upload(p) == \E r \in ConcurrentRequests : upload(p, r)

Next ==
    \/ \E p \in Procs : Upload(p)
    \/ \E p \in Procs : InsertOk(p)
    \/ \E p \in Procs : InsertFail(p)
    \/ stats
    \/ debug
    \/ download_csv
    \/ \E u \in Uuids : download_audio(Filename(u))
    \/ download_all

Spec == Init /\ [][Next]_vars

(***************************************************************************)
(* SpecV: one upload, its fields drawn from the input sets above, then a   *)
(* download of its audio.                                                  *)
(***************************************************************************)
InitV ==
    /\ collection = <<>>
    /\ issued = {}
    /\ \E a \in AUDIO_INPUTS, t \in TEXT_INPUTS, l \in LANGUAGE_INPUTS,
          e \in ENVIRONMENT_INPUTS, s \in SPEAKER_INPUTS, i \in INTENT_INPUTS,
          oc \in OBJECT_COLOR_INPUTS, tc \in TARGET_COLOR_INPUTS,
          d \in DIRECTION_INPUTS :
            req = [p \in Procs |-> IF p = 1 THEN Request(a, t, l, e, s, i, oc, tc, d)
                                   ELSE NoReq]
    /\ up = [p \in Procs |-> Idle]
    /\ rdr = NoReader
    /\ rd = NoRead

UploadV(p) == req[p] # NoReq /\ upload(p, req[p])

\* the client fetches the audio under the filename upload returned
DownloadV(p) ==
    /\ up[p].pc = "done"
    /\ up[p].resp.status = 200
    /\ download_audio(up[p].resp.filename)

NextV ==
    \/ \E p \in Procs : UploadV(p)
    \/ \E p \in Procs : InsertOk(p)
    \/ \E p \in Procs : InsertFail(p)
    \/ \E p \in Procs : DownloadV(p)

SpecV == InitV /\ [][NextV]_vars

(***************************************************************************)
(* SpecX: the read handlers on a collection that already holds documents   *)
(* when the process starts (the database outlives the process): entries    *)
(* as upload stores them, and documents of an earlier schema that hold no  *)
(* audio_b64 and none of the later fields.                                 *)
(***************************************************************************)
DocName(i) == <<"d", DIGITS[i + 1]>> \o <<".", "w", "e", "b", "m">>
ReqQuoted ==
    Request(DataUrl(<<77, 0>>), <<"s", "a", "y", " ", "\"", "h", "i", "\"", ",",
                                  "\r", "\n", "b", "y", "e">>,
            <<"M", "I", "X", "E", "D">>, <<"Q", "u", "i", "e", "t">>, <<"s", ",", "1">>, <<"s", "t", "o", "p">>, <<>>, <<"p", "i", "n", "k">>, <<>>)
StoredDoc(kind, i) ==
    LET ts == <<"2", "0", "2", "4", "-", "0", "4", "-", "3", "0", "T", "0", "9", ":", "0", "0", ":", "0">> \o <<DIGITS[i + 1]>> IN
    CASE kind = 1 -> BuildEntry(ReqBengali, Validate(ReqBengali), DocName(i), ts)
      [] kind = 2 -> BuildEntry(ReqQuoted, Validate(ReqQuoted), DocName(i), ts)
      [] kind = 3 -> [filename |-> DocName(i), text |-> <<"o", "l", "d">>,
                      language |-> <<"e", "n", "g", "l", "i", "s", "h">>, environment |-> <<"n", "o", "i", "s", "y">>,
                      timestamp |-> ts]
DocKinds == {1, 2, 3}

InitX ==
    /\ \E n \in 0..(ListCap + 1) :
         \E kinds \in [1..n -> DocKinds] :
            collection = [i \in 1..n |-> StoredDoc(kinds[i], i)]
    /\ issued = {}
    /\ req = [p \in Procs |-> NoReq]
    /\ up = [p \in Procs |-> Idle]
    /\ rdr = NoReader
    /\ rd = NoRead

NextX ==
    \/ stats
    \/ debug
    \/ download_csv
    \/ \E i \in 1..(ListCap + 2) : download_audio(DocName(i))
    \/ download_all

SpecX == InitX /\ [][NextX]_vars

(***************************************************************************)
(* Vocabulary of the properties.                                           *)
(***************************************************************************)
Min(a, b) == IF a < b THEN a ELSE b
SameLetter(a, b) ==
    a = b \/ \E k \in 1..Len(UPPER) : {a, b} = {UPPER[k], LOWER[k]}
CIEqual(v, w) == Len(v) = Len(w) /\ \A i \in 1..Len(v) : SameLetter(v[i], w[i])
CIMember(v, S) == \E w \in S : CIEqual(v, w)
IsLowerCase(s) == Range(s) \cap Range(UPPER) = {}
IsUpperCase(s) == Range(s) \cap (Range(LOWER) \cup {ESZETT}) = {}
IsTrimmed(s) == s = <<>> \/ (s[1] \notin WHITESPACE /\ s[Len(s)] \notin WHITESPACE)

ENUM_FIELDS ==
    {"language", "environment", "intent", "object_color", "target_color",
     "direction"}
EnumSet(f) ==
    CASE f = "language" -> VALID_LANGUAGES
      [] f = "environment" -> VALID_NOISE
      [] f = "intent" -> VALID_INTENTS
      [] f \in {"object_color", "target_color"} -> VALID_COLORS
      [] f = "direction" -> VALID_DIRECTIONS
\* the position of each rule in the documented order
RuleOfField(f) ==
    CASE f = "text" -> 1 [] f = "speaker_id" -> 2 [] f = "language" -> 3
      [] f = "environment" -> 4 [] f = "intent" -> 5 [] f = "object_color" -> 6
      [] f = "target_color" -> 7 [] f = "direction" -> 8
\* audio: 9 no comma, 10 prefix, 11 base64, 12 size
Violations(r) ==
    {RuleOfField("text") :
        x \in {1} \cap {k \in {1} : strip(r.text) = <<>>
                                    \/ Len(strip(r.text)) > MaxTextLen}}
    \cup {RuleOfField("speaker_id") :
        x \in {1} \cap {k \in {1} : strip(r.speaker_id) = <<>>
                                    \/ Len(upper(strip(r.speaker_id))) > MaxSpeakerLen}}
    \cup {RuleOfField(f) : f \in {g \in ENUM_FIELDS : ~CIMember(r[g], EnumSet(g))}}
    \cup {k \in {9} : "," \notin Range(r.audio_data)}
    \cup {k \in {10} : /\ "," \in Range(r.audio_data)
                       /\ ~startswith(split1(r.audio_data)[1], <<"d", "a", "t", "a", ":", "a", "u", "d", "i", "o", "/">>)}
    \cup {k \in {11} : /\ "," \in Range(r.audio_data)
                       /\ ~b64decode(split1(r.audio_data)[2]).ok}
    \cup {k \in {12} : /\ "," \in Range(r.audio_data)
                       /\ b64decode(split1(r.audio_data)[2]).ok
                       /\ Len(b64decode(split1(r.audio_data)[2]).bytes)
                             > MAX_AUDIO_SIZE_MB * BytesPerMB}
FirstViolation(r) ==
    LET violated == Violations(r) IN
    IF violated = {} THEN 0
    ELSE CHOOSE k \in violated : \A j \in violated : k <= j
\* the rule an error message of upload reports
ErrorRule(detail) ==
    CASE detail = "Text must be 1-1000 characters." -> 1
      [] detail \in {"Speaker ID is required.",
                     "Speaker ID too long (max 20 chars)."} -> 2
      [] detail = "Language must be one of" -> 3
      [] detail = "Environment must be one of" -> 4
      [] detail = "Intent must be one of" -> 5
      [] detail = "Object color must be one of" -> 6
      [] detail = "Target color must be one of" -> 7
      [] detail = "Direction must be one of" -> 8
      [] detail = "Invalid audio format." -> 9
      [] detail = "Uploaded data is not audio." -> 10
      [] detail = "Failed to decode audio data." -> 11
      [] detail = "Audio exceeds 10MB limit." -> 12
      [] OTHER -> 0

Validated(p) == up[p].pc # "idle"
Rejected(p) == up[p].pc = "done" /\ up[p].resp.status = 400
Succeeded(p) == up[p].pc = "done" /\ up[p].resp.status = 200

\* C1: upload reports the first violated rule, in the order text, speaker_id,
\* language, environment, intent, object_color, target_color, direction,
\* audio (comma, prefix, base64, size), always as a 400; a request that
\* violates no rule passes validation.
C1_FirstViolatedRuleReported ==
    \A p \in Procs : Validated(p) =>
        LET first == FirstViolation(req[p]) IN
        IF first = 0
        THEN up[p].pc = "insert" \/ (up[p].pc = "done" /\ up[p].resp.status \in {200, 500})
        ELSE Rejected(p) /\ ErrorRule(up[p].resp.detail) = first
C1_Witness ==
    \E p \in Procs :
        /\ Rejected(p)
        /\ Violations(req[p]) = {2, 5, 10, 11}
        /\ up[p].resp.detail = "Speaker ID too long (max 20 chars)."

NormalizedEntry(e) ==
    /\ IsTrimmed(e.text) /\ Len(e.text) \in 1..MaxTextLen
    /\ IsTrimmed(e.speaker_id) /\ IsUpperCase(e.speaker_id)
    /\ Len(e.speaker_id) \in 1..MaxSpeakerLen
    /\ \A f \in ENUM_FIELDS : e[f] \in EnumSet(f) /\ IsLowerCase(e[f])
\* C2: every stored entry is normalized; an enumerated value that matches
\* its set case-insensitively is accepted and stored lower-cased, any other
\* value is rejected and never stored.
C2_StoredEntriesNormalized ==
    /\ \A i \in 1..Len(collection) : NormalizedEntry(collection[i])
    /\ \A p \in Procs : Validated(p) => \A f \in ENUM_FIELDS :
          IF CIMember(req[p][f], EnumSet(f))
          THEN /\ ~(Rejected(p) /\ ErrorRule(up[p].resp.detail) = RuleOfField(f))
               /\ up[p].entry # NoEntry =>
                     /\ CIEqual(up[p].entry[f], req[p][f])
                     /\ IsLowerCase(up[p].entry[f])
          ELSE Rejected(p) /\ up[p].entry = NoEntry
    /\ \A i \in 1..Len(collection) :
          \E p \in Procs : up[p].entry = collection[i]
C2_Witness ==
    \E p \in Procs :
        /\ Succeeded(p)
        /\ req[p].language = <<"E", "n", "g", "l", "i", "s", "h">>
        /\ req[p].speaker_id = <<" ", ESZETT, "1", "\t">>
        /\ collection[1].language = <<"e", "n", "g", "l", "i", "s", "h">>
        /\ collection[1].speaker_id = <<"S", "S", "1">>
        /\ collection[1].intent = <<"p", "i", "c", "k", "_", "a", "n", "d", "_", "p", "l", "a", "c", "e">>

(***************************************************************************)
(* A reader of CSV (RFC 4180): the rows of a document, each a sequence of  *)
(* fields.                                                                 *)
(***************************************************************************)
\* the characters of s at the places in keep, in order
Nth(keep, k) == CHOOSE i \in keep : Cardinality({j \in keep : j <= i}) = k
Select(s, keep) == [k \in 1..Cardinality(keep) |-> s[Nth(keep, k)]]
\* the pieces of s between the cuts, each cut w characters wide
Pieces(s, cuts, w) ==
    [k \in 1..(Cardinality(cuts) + 1) |->
        SubSeq(s,
               IF k = 1 THEN 1 ELSE Nth(cuts, k - 1) + w,
               IF k = Cardinality(cuts) + 1 THEN Len(s) ELSE Nth(cuts, k) - 1)]
\* the quote characters among the first i of s; a character is outside
\* quotes when an even number of them precedes it
Quotes(s, i) == Cardinality({j \in 1..i : s[j] = "\""})
Outside(s, i) == Quotes(s, i - 1) % 2 = 0
Unquote(f) ==
    IF Len(f) >= 2 /\ f[1] = "\"" /\ f[Len(f)] = "\"" THEN
        LET inner == SubSeq(f, 2, Len(f) - 1)
        IN  Select(inner, {j \in 1..Len(inner) :
                              inner[j] # "\"" \/ Quotes(inner, j) % 2 = 1})
    ELSE f
CsvFields(line) ==
    LET parts == Pieces(line, {i \in 1..Len(line) : line[i] = "," /\ Outside(line, i)}, 1)
    IN  [k \in 1..Len(parts) |-> Unquote(parts[k])]
CsvRows(body) ==
    LET lines == Pieces(body,
                        {i \in 1..(Len(body) - 1) :
                            /\ body[i] = "\r" /\ body[i + 1] = "\n"
                            /\ Outside(body, i)},
                        2)
        whole == IF lines[Len(lines)] = <<>> THEN SubSeq(lines, 1, Len(lines) - 1)
                 ELSE lines
    IN  [k \in 1..Len(whole) |-> CsvFields(whole[k])]

ALL_FIELDS ==
    {"filename", "speaker_id", "text", "language", "environment", "intent",
     "object_color", "target_color", "direction", "timestamp", "audio_b64"}
FullEntry(e) == DOMAIN e = ALL_FIELDS /\ b64decode(e.audio_b64).ok
IsOk(handler) == rd.to = handler /\ rd.resp.status = 200
ZipAudio == SubSeq(rd.resp.members, 1, Len(rd.resp.members) - 1)
ZipCsvRows == Tail(CsvRows(rd.resp.members[Len(rd.resp.members)].data))
\* what the read handlers have shown of the collection is whole
ObservedWhole ==
    /\ \A i \in 1..Len(collection) : FullEntry(collection[i])
    /\ IsOk("download_all") =>
          /\ Len(ZipAudio) = Len(ZipCsvRows)
          /\ \A k \in 1..Len(ZipAudio) :
                ZipAudio[k].name = <<"a", "u", "d", "i", "o", "/">> \o ZipCsvRows[k][1]
    /\ IsOk("download_csv") =>
          \A k \in 1..Len(Tail(CsvRows(rd.resp.body))) :
             \E i \in 1..Len(collection) :
                /\ collection[i].filename = Tail(CsvRows(rd.resp.body))[k][1]
                /\ FullEntry(collection[i])
    /\ (IsOk("debug") /\ rd.resp.sample_entry # <<>>) =>
          DOMAIN rd.resp.sample_entry[1] = ALL_FIELDS \ {"audio_b64"}
Failed(p) == up[p].pc = "done" /\ up[p].resp.status \in {400, 500}
C4_UploadThenLookup ==
    \A p \in Procs : Succeeded(p) =>
        LET f    == up[p].resp.filename
            r    == req[p]
            hits == {i \in 1..Len(collection) : collection[i].filename = f}
        IN
        /\ Cardinality(hits) = 1
        /\ \A i \in hits :
              /\ collection[i].text = strip(r.text)
              /\ collection[i].speaker_id = upper(strip(r.speaker_id))
              /\ \A g \in ENUM_FIELDS : collection[i][g] = lower(r[g])
        /\ (rd.to = "download_audio" /\ rd.arg = f) =>
              /\ rd.resp.status = 200
              /\ rd.resp.body = b64decode(split1(r.audio_data)[2]).bytes
              /\ \A b \in BYTE_SAMPLES : r.audio_data = DataUrl(b) => rd.resp.body = b
C4_Witness ==
    \E p \in Procs :
        /\ Succeeded(p)
        /\ req[p].audio_data = DataUrl(<<250, 251, 252, 253>>)
        /\ IsOk("download_audio") /\ rd.arg = up[p].resp.filename
        /\ rd.resp.body = <<250, 251, 252, 253>>

\* C5: concurrent uploads that succeed return pairwise distinct filenames,
\* each has exactly one entry in the collection, holding its own fields, the
\* collection holds one entry per successful upload (it was empty at the
\* start), and no two entries share a filename.
C5_ConcurrentUploadsKeptApart ==
    /\ \A i, j \in 1..Len(collection) :
          collection[i].filename = collection[j].filename => i = j
    /\ \A p, q \in Procs :
          (Succeeded(p) /\ Succeeded(q) /\ up[p].resp.filename = up[q].resp.filename)
             => p = q
    /\ \A p \in Procs : Succeeded(p) =>
          /\ Cardinality({i \in 1..Len(collection) :
                            collection[i].filename = up[p].resp.filename}) = 1
          /\ \A i \in 1..Len(collection) :
                collection[i].filename = up[p].resp.filename =>
                   /\ FullEntry(collection[i])
                   /\ collection[i].text = strip(req[p].text)
                   /\ collection[i].speaker_id = upper(strip(req[p].speaker_id))
                   /\ collection[i].audio_b64 = split1(req[p].audio_data)[2]
                   /\ \A g \in ENUM_FIELDS : collection[i][g] = lower(req[p][g])
    /\ Len(collection) = Cardinality({p \in Procs : Succeeded(p)})
C5_Witness ==
    /\ \A p \in Procs : Succeeded(p)
    /\ Len(collection) = NumUploads
    /\ \E p, q \in Procs : req[p] = ReqBengali /\ req[q] = ReqEnglish

\* C6: entries are only ever added, one per successful upload: every step
\* keeps the entries already stored, at their places and with their values;
\* the collection grows, by exactly one entry, exactly when an upload
\* succeeds; the read handlers leave it unchanged.
C6_EntriesOnlyAppended ==
    [][ /\ Len(collection') >= Len(collection)
        /\ SubSeq(collection', 1, Len(collection)) = collection
        /\ Len(collection') <= Len(collection) + 1
        /\ Len(collection') = Len(collection) + 1
              <=> \E p \in Procs : ~Succeeded(p) /\ Succeeded(p)'
        /\ (rd' # rd \/ rdr' # rdr) => collection' = collection ]_vars
C6_Witness ==
    /\ Len(collection) = NumUploads
    /\ IsOk("stats")
    /\ rd.resp.total = 1

Count(field, value) ==
    Cardinality({i \in 1..Len(collection) : collection[i][field] = value})
\* C7: a stats response computed with no insert between its queries (the
\* collection is still as long as the total it reports) gives, for every
\* language, environment and intent bucket, the number of stored entries with
\* that value; bengali + english <= total.
C7_StatsCountsEntries ==
    (IsOk("stats") /\ Len(collection) = rd.resp.total) =>
        /\ rd.resp.bengali = Count("language", <<"b", "e", "n", "g", "a", "l", "i">>)
        /\ rd.resp.english = Count("language", <<"e", "n", "g", "l", "i", "s", "h">>)
        /\ rd.resp.mixed = Count("language", <<"m", "i", "x", "e", "d">>)
        /\ rd.resp.noisy = Count("environment", <<"n", "o", "i", "s", "y">>)
        /\ rd.resp.quiet = Count("environment", <<"q", "u", "i", "e", "t">>)
        /\ \A k \in 1..Len(INTENT_LIST) :
              rd.resp.intents[k] = Count("intent", INTENT_LIST[k])
        /\ rd.resp.bengali + rd.resp.english <= rd.resp.total
C7_Witness ==
    /\ IsOk("stats")
    /\ Len(collection) = rd.resp.total
    /\ rd.resp.total = 2 /\ rd.resp.bengali = 1 /\ rd.resp.english = 1
    /\ rd.resp.intents[2] = 1

\* C10: every stats response is a snapshot: its language buckets sum to its
\* total and so do its environment buckets.
C10_StatsIsSnapshot ==
    IsOk("stats") =>
        /\ rd.resp.bengali + rd.resp.english + rd.resp.mixed = rd.resp.total
        /\ rd.resp.noisy + rd.resp.quiet = rd.resp.total

(***************************************************************************)
(* The exports, on SpecX.                                                  *)
(***************************************************************************)
\* the rows a CSV of the first n entries holds: the header, then each
\* entry's values as stored, "" for a field the document lacks
ExpectedRows(n) ==
    <<CSV_HEADER>>
    \o [i \in 1..n |->
          << Get(collection[i], "filename"), Get(collection[i], "speaker_id"),
             Get(collection[i], "text"), Get(collection[i], "language"),
             Get(collection[i], "intent"), Get(collection[i], "object_color"),
             Get(collection[i], "target_color"), Get(collection[i], "direction"),
             Get(collection[i], "environment"), Get(collection[i], "timestamp") >>]
Exported == Min(Len(collection), ListCap)

\* C8 as claimed: download_csv answers 404 on an empty collection and
\* otherwise the header row and one row per stored entry.
C8_CsvRowPerEntry ==
    rd.to = "download_csv" =>
        IF collection = <<>> THEN rd.resp.status = 404
        ELSE /\ rd.resp.status = 200
             /\ CsvRows(rd.resp.body) = ExpectedRows(Len(collection))
\* C8, amended: one row per entry the capped listing returns.
C8_CsvRowPerListedEntry ==
    rd.to = "download_csv" =>
        IF collection = <<>> THEN rd.resp.status = 404
        ELSE /\ rd.resp.status = 200
             /\ CsvRows(rd.resp.body) = ExpectedRows(Exported)
C8_Witness ==
    /\ IsOk("download_csv")
    /\ Len(collection) = ListCap
    /\ Len(CsvRows(rd.resp.body)) = ListCap + 1
    /\ \E i \in 1..Len(collection) : collection[i].text = ReqQuoted.text

HasAudio(i) == "audio_b64" \in DOMAIN collection[i]
\* the archive, for the first n entries: one metadata.csv with a row per
\* entry, one audio/<filename> per entry that holds audio, nothing else
ArchiveOf(n) ==
    /\ Cardinality({k \in 1..Len(rd.resp.members) :
                       rd.resp.members[k].name = <<"m", "e", "t", "a", "d", "a", "t", "a", ".", "c", "s", "v">>}) = 1
    /\ \A k \in 1..Len(rd.resp.members) :
          rd.resp.members[k].name = <<"m", "e", "t", "a", "d", "a", "t", "a", ".", "c", "s", "v">> =>
             CsvRows(rd.resp.members[k].data) = ExpectedRows(n)
    /\ \A i \in 1..n : HasAudio(i) =>
          Cardinality({k \in 1..Len(rd.resp.members) :
                          /\ rd.resp.members[k].name = <<"a", "u", "d", "i", "o", "/">> \o collection[i].filename
                          /\ rd.resp.members[k].data = b64decode(collection[i].audio_b64).bytes})
             = 1
    /\ Len(rd.resp.members) = 1 + Cardinality({i \in 1..n : HasAudio(i)})
\* C9 as claimed: download_all answers 404 on an empty collection and
\* otherwise the archive of all stored entries; an entry without audio does
\* not make it fail.
C9_ZipOfAllEntries ==
    rd.to = "download_all" =>
        IF collection = <<>> THEN rd.resp.status = 404
        ELSE rd.resp.status = 200 /\ ArchiveOf(Len(collection))
\* C9, amended: the archive of the entries the capped listing returns.
C9_ZipOfListedEntries ==
    rd.to = "download_all" =>
        IF collection = <<>> THEN rd.resp.status = 404
        ELSE rd.resp.status = 200 /\ ArchiveOf(Exported)
C9_Witness ==
    /\ IsOk("download_all")
    /\ Len(collection) = ListCap
    /\ ~HasAudio(1) /\ HasAudio(2)
    /\ Len(rd.resp.members) = ListCap

====
